---- MODULE Spec2Model ----
(***************************************************************************)
(* Model of src/server.js: the response-normalization pipeline             *)
(* (parseAIResponse, parseClaudeResponse, itemsToOutline,                  *)
(* normalizeItemForFrontend) and the POST /api/claude handler around it.   *)
(*                                                                         *)
(* A JavaScript string is a sequence of one-character strings, one per     *)
(* UTF-16 code unit.  A code unit outside ASCII is written by its code     *)
(* point, e.g. "U3010" for the left lenticular bracket.                    *)
(***************************************************************************)
EXTENDS Integers, Sequences, FiniteSets, TLC

VARIABLES
    fn,         \* pipeline harness: the function applied to arg, "none" before
    arg,        \* pipeline harness: the input (a string or a JS value)
    ret,        \* pipeline harness: what the function returned
    locals,     \* pipeline harness: the locals of the parseAIResponse call
    apiKey,     \* DEEPSEEK_API_KEY is configured (server.js:14)
    pc,         \* per request: position of the handler
    notes,      \* per request: req.body.notes
    completion, \* per request: the upstream call's outcome
    parseCalls, \* per request: number of parseAIResponse invocations
    fetchCalls, \* per request: number of upstream model calls issued
    response    \* per request: what was passed to res.status(..).json(..)

vars == <<fn, arg, ret, locals, apiKey, pc, notes, completion, parseCalls, fetchCalls, response>>

----------------------------------------------------------------------------
(* Bounds *)

MaxItems == 2
NumReq == 2

----------------------------------------------------------------------------
(* JavaScript strings *)

SetMin(S) == CHOOSE x \in S : \A y \in S : x <= y
SetMax(S) == CHOOSE x \in S : \A y \in S : x >= y

\* White space as String.prototype.trim and the regex class \s see it
IsWs(c) == c \in {" ", "\n", "\t", "\r"}

\* String.prototype.trim
trim(s) ==
    LET keep == {i \in 1..Len(s) : ~IsWs(s[i])}
    IN  IF keep = {} THEN <<>> ELSE SubSeq(s, SetMin(keep), SetMax(keep))

\* String.prototype.indexOf: 0-based position of the first occurrence, or -1
indexOf(s, m) ==
    LET hits == {i \in 0..(Len(s) - Len(m)) : SubSeq(s, i + 1, i + Len(m)) = m}
    IN  IF hits = {} THEN -1 ELSE SetMin(hits)

\* String.prototype.slice(start, end) for 0 <= start, 0 <= end
slice(s, start, end) ==
    LET e == IF end > Len(s) THEN Len(s) ELSE end
    IN  IF start >= e THEN <<>> ELSE SubSeq(s, start + 1, e)

\* String.prototype.slice(start)
sliceFrom(s, start) == slice(s, start, Len(s))

RECURSIVE join(_, _)
\* Array.prototype.join on an array of strings
join(parts, sep) ==
    IF parts = <<>> THEN <<>>
    ELSE IF Len(parts) = 1 THEN parts[1]
    ELSE parts[1] \o sep \o join(Tail(parts), sep)

----------------------------------------------------------------------------
(* parseClaudeResponse: the marker-based section splitter *)

openMarker == <<"U3010", "U5F00", "U573A", "U767D", "U3011">>
outlineMarker == <<"U3010", "U5927", "U7EB2", "U3011">>

\* In priority order: "outline:" (full-width colon), "## outline",
\* "## content outline", newline + "- ", newline + "* "
altMarkers ==
    << <<"U5927", "U7EB2", "UFF1A">>,
       <<"#", "#", " ", "U5927", "U7EB2">>,
       <<"#", "#", " ", "U5185", "U5BB9", "U5927", "U7EB2">>,
       <<"\n", "-", " ">>,
       <<"\n", "*", " ">> >>

sliceSectionToEnd(text, startIdx, markerLen, untilIdx) ==
    IF startIdx = -1 THEN <<>>
    ELSE trim(slice(text, startIdx + markerLen, Len(text)))

sliceSection(text, startIdx, markerLen, untilIdx) ==
    IF startIdx = -1 THEN <<>>
    ELSE LET start == startIdx + markerLen
             end == IF untilIdx = -1 THEN Len(text) ELSE untilIdx
         IN  trim(slice(text, start, end))

RECURSIVE cutAtAltMarker(_, _)
\* for (const m of altMarkers) { ...; break; }: the first marker of the list
\* that occurs decides; everything up to and including it is dropped
cutAtAltMarker(outline, ms) ==
    IF ms = <<>> THEN outline
    ELSE LET i == indexOf(outline, Head(ms))
         IN  IF i # -1 THEN trim(sliceFrom(outline, i + Len(Head(ms))))
             ELSE cutAtAltMarker(outline, Tail(ms))

halfCeil(text) == (Len(text) + 1) \div 2

\* Math.floor(text.length / 2)
half(text) == Len(text) \div 2

parseClaudeResponse(text) ==
    LET openIdx == indexOf(text, openMarker)
        outlineIdx == indexOf(text, outlineMarker)
    IN  IF openIdx # -1 /\ outlineIdx # -1 THEN
            [outline |-> sliceSection(text, outlineIdx, Len(outlineMarker),
                                      IF openIdx > outlineIdx THEN openIdx ELSE -1),
             opening |-> sliceSection(text, openIdx, Len(openMarker),
                                      IF outlineIdx > openIdx THEN outlineIdx ELSE -1)]
        ELSE IF openIdx # -1 THEN
            [outline |-> cutAtAltMarker(trim(slice(text, 0, openIdx)), altMarkers),
             opening |-> sliceSection(text, openIdx, Len(openMarker), -1)]
        ELSE IF outlineIdx # -1 THEN
            [outline |-> sliceSection(text, outlineIdx, Len(outlineMarker), -1),
             opening |-> <<>>]
        ELSE
            [outline |-> trim(slice(text, 0, half(text))),
             opening |-> trim(text)]

----------------------------------------------------------------------------
(* JavaScript values, as JSON.parse and object literals produce them.      *)
(* Every value is a record of the same shape: t the type, s the characters *)
(* of a string, n the number (or 0/1 for a boolean), a the elements of an  *)
(* array or the [k, v] properties of an object in insertion order.         *)

JUndef == [t |-> "undefined", s |-> <<>>, n |-> 0, a |-> <<>>]
JNull == [t |-> "null", s |-> <<>>, n |-> 0, a |-> <<>>]
JStr(s) == [t |-> "string", s |-> s, n |-> 0, a |-> <<>>]
JNum(n) == [t |-> "number", s |-> <<>>, n |-> n, a |-> <<>>]
JBool(b) == [t |-> "boolean", s |-> <<>>, n |-> IF b THEN 1 ELSE 0, a |-> <<>>]
JArr(a) == [t |-> "array", s |-> <<>>, n |-> 0, a |-> a]
JObj(props) == [t |-> "object", s |-> <<>>, n |-> 0, a |-> props]
Prop(k, v) == [k |-> k, v |-> v]

\* v[key]: the last property of that name, undefined when there is none or
\* v is not a plain object
Get(v, key) ==
    IF v.t # "object" THEN JUndef
    ELSE LET at == {i \in 1..Len(v.a) : v.a[i].k = key}
         IN  IF at = {} THEN JUndef ELSE v.a[SetMax(at)].v

\* x == null / x != null
IsNullish(v) == v.t \in {"null", "undefined"}

\* typeof x === 'object' (null included)
TypeofObject(v) == v.t \in {"object", "array", "null"}

\* ToBoolean
Truthy(v) ==
    CASE v.t \in {"null", "undefined"} -> FALSE
      [] v.t = "string" -> v.s # <<>>
      [] v.t = "number" -> v.n # 0
      [] v.t = "boolean" -> v.n = 1
      [] OTHER -> TRUE

Digits == <<"0", "1", "2", "3", "4", "5", "6", "7", "8", "9">>
Digit(d) == Digits[d + 1]

RECURSIVE NatToString(_)
NatToString(n) ==
    IF n < 10 THEN <<Digit(n)>> ELSE NatToString(n \div 10) \o <<Digit(n % 10)>>

RECURSIVE String(_)
\* String(x)
String(v) ==
    CASE v.t = "string" -> v.s
      [] v.t = "null" -> <<"n", "u", "l", "l">>
      [] v.t = "undefined" -> <<"u", "n", "d", "e", "f", "i", "n", "e", "d">>
      [] v.t = "number" ->
            IF v.n < 0 THEN <<"-">> \o NatToString(-v.n) ELSE NatToString(v.n)
      [] v.t = "boolean" ->
            IF v.n = 1 THEN <<"t", "r", "u", "e">> ELSE <<"f", "a", "l", "s", "e">>
      [] v.t = "object" ->
            <<"[", "o", "b", "j", "e", "c", "t", " ", "O", "b", "j", "e", "c", "t", "]">>
      [] v.t = "array" ->
            \* Array.prototype.toString: join(","), null and undefined as ""
            join([i \in 1..Len(v.a) |->
                    IF IsNullish(v.a[i]) THEN <<>> ELSE String(v.a[i])], <<",">>)

----------------------------------------------------------------------------
(* Property names *)

kOutline == <<"o", "u", "t", "l", "i", "n", "e">>
kItems == <<"i", "t", "e", "m", "s">>
kSummary == <<"s", "u", "m", "m", "a", "r", "y">>
kOpening == <<"o", "p", "e", "n", "i", "n", "g">>
kVisualCode == <<"v", "i", "s", "u", "a", "l", "C", "o", "d", "e">>
kText == <<"t", "e", "x", "t">>
kCore == <<"c", "o", "r", "e">>
kLogic == <<"l", "o", "g", "i", "c">>
kInsight == <<"i", "n", "s", "i", "g", "h", "t">>
kError == <<"e", "r", "r", "o", "r">>
\* The native-language keys "core quote", "logical breakdown",
\* "interaction suggestion"
kCoreNative == <<"U6838", "U5FC3", "U91D1", "U53E5">>
kLogicNative == <<"U903B", "U8F91", "U62C6", "U89E3">>
kInsightNative == <<"U4E92", "U52A8", "U5EFA", "U8BAE">>

----------------------------------------------------------------------------
(* itemsToOutline: the outline renderer *)

\* The text of one item: the item itself when a string, its text property
\* when it is an object that has one, else its string coercion
itemText(item) ==
    IF item.t = "string" THEN item
    ELSE IF Truthy(item) /\ TypeofObject(item) /\ ~IsNullish(Get(item, kText))
         THEN Get(item, kText)
    ELSE JStr(String(item))

itemsToOutline(items) ==
    IF items.t # "array" \/ Len(items.a) = 0 THEN <<>>
    ELSE join([i \in 1..Len(items.a) |->
                 <<"-", " ">> \o trim(String(itemText(items.a[i])))], <<"\n">>)

----------------------------------------------------------------------------
(* normalizeItemForFrontend: the item normalizer *)

\* a ?? b
Coalesce(a, b) == IF IsNullish(a) THEN b ELSE a

\* if (field) parts.push(String(field).trim())
pushPart(parts, field) ==
    IF Truthy(field) THEN Append(parts, trim(String(field))) ELSE parts

normalizeItemForFrontend(item) ==
    LET Text(s) == JObj(<<Prop(kText, JStr(s))>>)
    IN  IF IsNullish(item) THEN Text(<<>>)
        ELSE IF item.t = "string" THEN Text(trim(item.s))
        ELSE IF ~TypeofObject(item) THEN Text(String(item))
        ELSE IF Get(item, kText).t = "string" THEN Text(trim(Get(item, kText).s))
        ELSE LET core == Coalesce(Get(item, kCoreNative), Coalesce(Get(item, kCore), JStr(<<>>)))
                 logic == Coalesce(Get(item, kLogicNative), Coalesce(Get(item, kLogic), JStr(<<>>)))
                 insight == Coalesce(Get(item, kInsightNative), Coalesce(Get(item, kInsight), JStr(<<>>)))
                 parts == pushPart(pushPart(pushPart(<<>>, core), logic), insight)
             IN  Text(join(parts, <<"\n">>))

----------------------------------------------------------------------------
(* JSON.parse, by recursive descent.  A result is [ok, v, i]: whether a    *)
(* value was read, the value, and the position after it.  Numbers are      *)
(* integers; string escapes are the two-character ones (no \u escape).     *)

Fail == [ok |-> FALSE, v |-> JNull, i |-> 0]
Ok(v, i) == [ok |-> TRUE, v |-> v, i |-> i]

RECURSIVE SkipWs(_, _)
SkipWs(s, i) == IF i <= Len(s) /\ IsWs(s[i]) THEN SkipWs(s, i + 1) ELSE i

At(s, i, c) == i <= Len(s) /\ s[i] = c

StartsWithAt(s, i, w) == i + Len(w) - 1 <= Len(s) /\ SubSeq(s, i, i + Len(w) - 1) = w

IsDigit(c) == \E d \in 1..10 : Digits[d] = c
DigitVal(c) == (CHOOSE d \in 1..10 : Digits[d] = c) - 1

Unescape(c) ==
    CASE c = "n" -> "\n"
      [] c = "t" -> "\t"
      [] c = "r" -> "\r"
      [] c = "f" -> "\f"
      [] c = "b" -> "U0008"
      [] OTHER -> c

RECURSIVE ScanString(_, _, _)
\* s[i] is the first character after the opening quote
ScanString(s, i, acc) ==
    IF i > Len(s) THEN Fail
    ELSE IF s[i] = "\"" THEN Ok(JStr(acc), i + 1)
    ELSE IF s[i] \in {"\n", "\t", "\r", "\f", "U0008"} THEN Fail
    ELSE IF s[i] = "\\" THEN
        IF i + 1 <= Len(s) /\ s[i + 1] \in {"\"", "\\", "/", "n", "t", "r", "f", "b"}
        THEN ScanString(s, i + 2, Append(acc, Unescape(s[i + 1])))
        ELSE Fail
    ELSE ScanString(s, i + 1, Append(acc, s[i]))

RECURSIVE ScanDigits(_, _, _)
ScanDigits(s, i, n) ==
    IF i <= Len(s) /\ IsDigit(s[i]) THEN ScanDigits(s, i + 1, 10 * n + DigitVal(s[i]))
    ELSE Ok(JNum(n), i)

\* s[i] is a digit: a single 0, or a run of digits that does not start with 0
ScanNumber(s, i) ==
    IF s[i] = "0" THEN Ok(JNum(0), i + 1) ELSE ScanDigits(s, i, 0)

RECURSIVE ParseValue(_, _)
RECURSIVE ParseElements(_, _, _)
RECURSIVE ParseMembers(_, _, _)

ParseValue(s, i0) ==
    LET i == SkipWs(s, i0)
    IN  IF i > Len(s) THEN Fail
        ELSE IF s[i] = "\"" THEN ScanString(s, i + 1, <<>>)
        ELSE IF IsDigit(s[i]) THEN ScanNumber(s, i)
        ELSE IF s[i] = "-" THEN
            IF i + 1 <= Len(s) /\ IsDigit(s[i + 1])
            THEN LET r == ScanNumber(s, i + 1) IN Ok(JNum(-r.v.n), r.i)
            ELSE Fail
        ELSE IF StartsWithAt(s, i, <<"n", "u", "l", "l">>) THEN Ok(JNull, i + 4)
        ELSE IF StartsWithAt(s, i, <<"t", "r", "u", "e">>) THEN Ok(JBool(TRUE), i + 4)
        ELSE IF StartsWithAt(s, i, <<"f", "a", "l", "s", "e">>) THEN Ok(JBool(FALSE), i + 5)
        ELSE IF s[i] = "[" THEN
            LET j == SkipWs(s, i + 1)
            IN  IF At(s, j, "]") THEN Ok(JArr(<<>>), j + 1) ELSE ParseElements(s, j, <<>>)
        ELSE IF s[i] = "{" THEN
            LET j == SkipWs(s, i + 1)
            IN  IF At(s, j, "}") THEN Ok(JObj(<<>>), j + 1) ELSE ParseMembers(s, j, <<>>)
        ELSE Fail

ParseElements(s, i, acc) ==
    LET r == ParseValue(s, i)
    IN  IF ~r.ok THEN Fail
        ELSE LET j == SkipWs(s, r.i)
             IN  IF At(s, j, ",") THEN ParseElements(s, j + 1, Append(acc, r.v))
                 ELSE IF At(s, j, "]") THEN Ok(JArr(Append(acc, r.v)), j + 1)
                 ELSE Fail

ParseMembers(s, i0, acc) ==
    LET i == SkipWs(s, i0)
    IN  IF ~At(s, i, "\"") THEN Fail
        ELSE LET key == ScanString(s, i + 1, <<>>)
             IN  IF ~key.ok THEN Fail
                 ELSE LET c == SkipWs(s, key.i)
                      IN  IF ~At(s, c, ":") THEN Fail
                          ELSE LET r == ParseValue(s, c + 1)
                               IN  IF ~r.ok THEN Fail
                                   ELSE LET j == SkipWs(s, r.i)
                                            props == Append(acc, Prop(key.v.s, r.v))
                                        IN  IF At(s, j, ",") THEN ParseMembers(s, j + 1, props)
                                            ELSE IF At(s, j, "}") THEN Ok(JObj(props), j + 1)
                                            ELSE Fail

\* JSON.parse(text): ok = FALSE stands for the SyntaxError it throws
JSONparse(s) ==
    LET r == ParseValue(s, 1)
    IN  IF r.ok /\ SkipWs(s, r.i) > Len(s) THEN [ok |-> TRUE, v |-> r.v]
        ELSE [ok |-> FALSE, v |-> JUndef]

----------------------------------------------------------------------------
(* parseAIResponse: the structured response parser *)

\* The backtick, U+0060
tick == "U0060"
fence == <<tick, tick, tick>>

\* Case folding, for the letters the pattern's tag is made of
Lower(c) ==
    CASE c = "J" -> "j"
      [] c = "S" -> "s"
      [] c = "O" -> "o"
      [] c = "N" -> "n"
      [] OTHER -> c

\* The first replace: a fence opening the text goes, with the
\* tag after it when there is one and the white space after that
stripFenceOpen(raw) ==
    IF ~StartsWithAt(raw, 1, fence) THEN raw
    ELSE LET tagged == Len(raw) >= 7
                       /\ [k \in 1..4 |-> Lower(raw[3 + k])] = <<"j", "s", "o", "n">>
             j == SkipWs(raw, IF tagged THEN 8 ELSE 4)
         IN  SubSeq(raw, j, Len(raw))

\* The second replace: a fence closing the text goes, with the white
\* space before it
stripFenceClose(s) ==
    IF ~(Len(s) >= 3 /\ SubSeq(s, Len(s) - 2, Len(s)) = fence) THEN s
    ELSE LET keep == {i \in 1..(Len(s) - 3) : ~IsWs(s[i])}
         IN  IF keep = {} THEN <<>> ELSE SubSeq(s, 1, SetMax(keep))

stripFence(raw) == trim(stripFenceClose(stripFenceOpen(raw)))

jsonOutlineKeepsField(obj) ==
    IF Get(obj, kOutline).t = "string" THEN Get(obj, kOutline).s
    ELSE IF Get(obj, kItems).t = "array" /\ Len(Get(obj, kItems).a) > 0
         THEN itemsToOutline(Get(obj, kItems))
    ELSE <<>>

\* if (typeof obj.outline === 'string') outline = obj.outline;
\* if (Array.isArray(obj.items) && obj.items.length > 0) outline = itemsToOutline(obj.items)
jsonOutline(obj) ==
    IF Get(obj, kItems).t = "array" /\ Len(Get(obj, kItems).a) > 0
    THEN itemsToOutline(Get(obj, kItems))
    ELSE IF Get(obj, kOutline).t = "string" THEN Get(obj, kOutline).s
    ELSE <<>>

\* items = obj.items when it is a non-empty array, else null
jsonItems(obj) ==
    IF Get(obj, kItems).t = "array" /\ Len(Get(obj, kItems).a) > 0
    THEN Get(obj, kItems) ELSE JNull

jsonOpeningFirst(obj) ==
    IF Get(obj, kOpening).t = "string" THEN Get(obj, kOpening).s
    ELSE IF Get(obj, kSummary).t = "string" THEN Get(obj, kSummary).s
    ELSE <<>>

\* typeof obj.summary === 'string' ? obj.summary
\*   : (typeof obj.opening === 'string' ? obj.opening : '')
jsonOpening(obj) ==
    IF Get(obj, kSummary).t = "string" THEN Get(obj, kSummary).s
    ELSE IF Get(obj, kOpening).t = "string" THEN Get(obj, kOpening).s
    ELSE <<>>

jsonVisualCode(obj) ==
    IF ~IsNullish(Get(obj, kVisualCode)) /\ trim(String(Get(obj, kVisualCode))) # <<>>
    THEN JStr(trim(String(Get(obj, kVisualCode))))
    ELSE JNull

fallbackTextStripped(raw, jsonStr) == jsonStr

\* The text handed to parseClaudeResponse: raw, not jsonStr
fallbackText(raw, jsonStr) == raw

\* What the try block reads from obj: nothing when obj is falsy
jsonResult(obj) ==
    IF Truthy(obj)
    THEN [outline |-> jsonOutline(obj), opening |-> jsonOpening(obj),
          items |-> jsonItems(obj), visualCode |-> jsonVisualCode(obj)]
    ELSE [outline |-> <<>>, opening |-> <<>>, items |-> JNull, visualCode |-> JNull]

\* parseClaudeResponse's sections, with items and visualCode null
fallbackResult(sections) ==
    [outline |-> sections.outline, opening |-> sections.opening,
     items |-> JNull, visualCode |-> JNull]

\* The try block returns when JSON.parse returned and something was read;
\* otherwise, and when JSON.parse threw, the marker splitter decides
resultOf(l, j) ==
    IF l.parsed /\ (j.outline # <<>> \/ j.opening # <<>> \/ Truthy(j.items))
    THEN j
    ELSE fallbackResult(parseClaudeResponse(fallbackText(l.raw, l.jsonStr)))

localsOf(raw, jsonStr, p) ==
    [raw |-> raw, jsonStr |-> jsonStr, parsed |-> p.ok, obj |-> p.v]

decode(raw, jsonStr) == localsOf(raw, jsonStr, JSONparse(jsonStr))

strip(raw) == decode(raw, stripFence(raw))

\* The locals of one call: raw, jsonStr, whether JSON.parse returned, obj
parseLocals(text) == strip(trim(IF Truthy(text) THEN text.s ELSE <<>>))

finish(l) == resultOf(l, jsonResult(l.obj))

parseAIResponse(text) == finish(parseLocals(text))

----------------------------------------------------------------------------
(* Replies a model can send: JSON text as a serializer writes it *)

EscapeChar(c) ==
    CASE c = "\n" -> <<"\\", "n">>
      [] c = "\"" -> <<"\\", "\"">>
      [] c = "\\" -> <<"\\", "\\">>
      [] OTHER -> <<c>>

RECURSIVE Flatten(_)
Flatten(ss) == IF ss = <<>> THEN <<>> ELSE Head(ss) \o Flatten(Tail(ss))

EncodeString(s) == <<"\"">> \o Flatten([i \in 1..Len(s) |-> EscapeChar(s[i])]) \o <<"\"">>

Defined(props) == SelectSeq(props, LAMBDA pr : pr.v.t # "undefined")

RECURSIVE Encode(_)
Encode(v) ==
    CASE v.t = "string" -> EncodeString(v.s)
      [] v.t = "array" ->
            <<"[">> \o join([i \in 1..Len(v.a) |-> Encode(v.a[i])], <<",">>) \o <<"]">>
      [] v.t = "object" ->
            <<"{">> \o join([i \in 1..Len(v.a) |->
                               EncodeString(v.a[i].k) \o <<":">> \o Encode(v.a[i].v)],
                            <<",">>) \o <<"}">>
      [] OTHER -> String(v)

\* Arrays of 1..n elements of V
ArraysOf(V, n) == {JArr(a) : a \in UNION {[1..k -> V] : k \in 1..n}}

ReplyItem ==
    { JStr(<<" ", "a">>),
      JNull,
      JObj(<<Prop(kText, JStr(<<"b", " ">>))>>),
      JObj(<<Prop(kCoreNative, JStr(<<"A">>))>>) }

ReplyObject ==
    { JObj(Defined(<<Prop(kOutline, o), Prop(kItems, i), Prop(kSummary, s),
                     Prop(kOpening, p), Prop(kVisualCode, v)>>)) :
        o \in {JUndef, JStr(<<>>), JStr(<<"-", " ", "x">>)},
        i \in {JUndef, JArr(<<>>), JStr(<<"a">>)} \cup ArraysOf(ReplyItem, MaxItems),
        s \in {JUndef, JStr(<<>>), JStr(<<"S">>)},
        p \in {JUndef, JStr(<<>>), JStr(<<"O">>)},
        v \in {JUndef, JStr(<<"g">>)} }

\* Values that decode but are no reply object, or carry fields of other types
ReplyOdd ==
    { JNull, JNum(0), JNum(5), JBool(TRUE), JStr(<<"a", "\n", "b">>), JArr(<<>>),
      JArr(<<JStr(<<"a">>)>>), JObj(<<>>),
      JObj(<<Prop(kOutline, JNum(5))>>),
      JObj(<<Prop(kOutline, JNum(5)), Prop(kItems, JArr(<<JStr(<<"a">>)>>))>>),
      JObj(<<Prop(kOutline, JStr(<<"a", "\n", "\"", "b", "\\">>))>>),
      JObj(<<Prop(kVisualCode, JStr(<<"g">>))>>),
      JObj(<<Prop(kVisualCode, JNum(12)), Prop(kOpening, JStr(<<"O">>))>>),
      JObj(<<Prop(kVisualCode, JStr(<<" ">>)), Prop(kOutline, JStr(<<"x">>))>>),
      JObj(<<Prop(kSummary, JNull), Prop(kOpening, JStr(<<"O">>))>>),
      JObj(<<Prop(kOpening, JStr(<<"O">>)), Prop(kSummary, JStr(<<"S">>))>>),
      JObj(<<Prop(kOutline, JStr(<<"x">>)), Prop(kOutline, JStr(<<"y">>))>>),
      JObj(<<Prop(kItems, JArr(<<JNum(7), JBool(FALSE), JArr(<<JNull, JNum(1)>>)>>))>>) }

Plain(s) == s
Fenced(s) == fence \o <<"j", "s", "o", "n", "\n">> \o s \o <<"\n">> \o fence
FencedLoose(s) == <<" ">> \o fence \o <<"J", "S", "O", "N">> \o s \o fence \o <<"\n">>

JsonText ==
    UNION { {Plain(Encode(v)), Fenced(Encode(v)), FencedLoose(Encode(v))} :
              v \in ReplyObject \cup ReplyOdd }

\* Text that is not JSON as sent, or JSON with white space between tokens
OddText ==
    { <<>>,
      <<" ">>,
      <<"{">>,
      <<"{", "\"", "o", "u", "t", "l", "i", "n", "e", "\"", ":">>,
      <<"{", "'", "a", "'", ":", "1", "}">>,
      <<"{", "}", " ", "x">>,
      <<"[", "1", ",", "]">>,
      <<"0", "1">>,
      <<"\"", "a", "\n", "\"">>,
      <<"{", " ", "\"", "s", "u", "m", "m", "a", "r", "y", "\"", " ", ":", " ",
        "\"", "S", "\"", "\n", "}">>,
      fence \o <<"{", "}">>,
      fence \o fence,
      fence \o <<"j", "s">> \o <<"{", "}">> \o fence,
      <<"x">> \o fence \o <<"{", "}">> \o fence }

----------------------------------------------------------------------------
(* Prose replies, with and without the section markers *)

\* Strings that hold neither marker
Fragment ==
    { <<>>,
      <<"a">>,
      <<" ", "a", "\n">>,
      <<"a", " ", "b">>,
      <<"U3010", "a">>,
      <<"U5927", "U7EB2", "U3011">>,
      <<"\n", "-", " ", "c">> }

\* What may precede the opening marker
Lead ==
    { <<>>,
      <<"x">>,
      <<"n", "\n", "-", " ", "b", "\n">>,
      <<"n", "\n", "-", " ", "b", "\n", "-", " ", "c", "\n">>,
      <<"n", "\n", "*", " ", "b">>,
      <<"-", " ", "b", "\n">>,
      <<"n", "U5927", "U7EB2", "UFF1A", "x">>,
      <<"#", "#", " ", "U5927", "U7EB2", "\n", "x">>,
      <<"#", "#", " ", "U5185", "U5BB9", "U5927", "U7EB2", " ", "x">>,
      <<"n", "\n", "-", " ", "b", "U5927", "U7EB2", "UFF1A", "y">> }

OpeningFirst == {openMarker \o O \o outlineMarker \o L : O \in Fragment, L \in Fragment}
OutlineFirst == {outlineMarker \o L \o openMarker \o O : O \in Fragment, L \in Fragment}
OpeningOnly == {P \o openMarker \o O : P \in Lead, O \in Fragment}
OutlineOnly == {P \o outlineMarker \o L : P \in Lead, L \in Fragment}
NoMarker ==
    Fragment \cup
    { <<"0", "1", "2", "3", "4", "5", "6", "7", "8", "9">>,
      <<"0", "1", "2", "3", "4", "5", "6", "7", "8">>,
      <<"0", "1", " ", " ", "4", "5", "6">>,
      <<"0", "1", "2", " ", "4", "5">>,
      <<" ", "0", "1", "2", "3", " ">>,
      <<"U3010", "U5F00", "U573A", "U3011", "a">> }

ProseText == OpeningFirst \cup OutlineFirst \cup OpeningOnly \cup OutlineOnly \cup NoMarker

----------------------------------------------------------------------------
(* Items of unknown shape *)

\* Records keyed by the native-language names, the English aliases, or both
DomainRecord ==
    { JObj(Defined(<<Prop(kCoreNative, cn), Prop(kCore, ca), Prop(kLogicNative, ln),
                     Prop(kLogic, la), Prop(kInsightNative, xn)>>)) :
        cn \in {JUndef, JNull, JStr(<<>>), JStr(<<" ">>), JStr(<<"A", " ">>)},
        ca \in {JUndef, JStr(<<"a">>)},
        ln \in {JUndef, JStr(<<>>), JStr(<<"\n">>), JStr(<<"B">>)},
        la \in {JUndef, JStr(<<" ", "b">>)},
        xn \in {JUndef, JStr(<<"C">>), JNum(0), JNum(3)} }

OtherItem ==
    { JUndef, JNull, JStr(<<>>), JStr(<<" ", "p", " ">>), JNum(5), JNum(0), JBool(FALSE),
      JArr(<<>>), JArr(<<JStr(<<"a">>), JNull>>),
      JObj(<<Prop(kText, JStr(<<" ", "X", " ">>))>>),
      JObj(<<Prop(kText, JStr(<<"X">>)), Prop(kCore, JStr(<<"c">>))>>),
      JObj(<<Prop(kText, JNum(5)), Prop(kCore, JStr(<<"c">>))>>),
      JObj(<<Prop(kText, JNull), Prop(kInsight, JStr(<<"i">>))>>),
      JObj(<<Prop(kInsight, JStr(<<"i">>)), Prop(kLogic, JStr(<<"l">>)),
             Prop(kCore, JStr(<<"c">>))>>),
      JObj(<<Prop(kCore, JObj(<<>>))>>) }

ItemInput == DomainRecord \cup OtherItem

\* What itemsToOutline may be handed
OutlineElement ==
    { JStr(<<"a">>), JStr(<<" ", "a", " ">>), JStr(<<"-", " ", "a">>), JNull, JNum(12),
      JObj(<<Prop(kText, JStr(<<"b", "\n">>))>>),
      JObj(<<Prop(kText, JNum(3))>>),
      JObj(<<Prop(kCore, JStr(<<"c">>))>>) }

OutlineInput ==
    {JUndef, JNull, JStr(<<"a">>), JObj(<<>>), JArr(<<>>)} \cup ArraysOf(OutlineElement, MaxItems)

----------------------------------------------------------------------------
(* The pipeline's functions, each applied once to an input *)

NoLocals == [raw |-> <<>>, jsonStr |-> <<>>, parsed |-> FALSE, obj |-> JUndef]

Input(f, V) == {[f |-> f, v |-> x] : x \in V}

PipelineInput ==
    Input("parseAIResponse", {JUndef} \cup {JStr(t) : t \in JsonText \cup OddText \cup ProseText})
    \cup Input("parseClaudeResponse", {JStr(t) : t \in ProseText})
    \cup Input("normalizeItemForFrontend", ItemInput)
    \cup Input("itemsToOutline", OutlineInput)

Idle == [r \in 1..NumReq |-> "idle"]
NoValue == [r \in 1..NumReq |-> JUndef]
Zero == [r \in 1..NumReq |-> 0]
NoResponse == [r \in 1..NumReq |-> [status |-> 0, body |-> JUndef]]

handlerVars == <<apiKey, pc, notes, completion, parseCalls, fetchCalls, response>>
pipelineVars == <<fn, arg, ret, locals>>

InitPipeline ==
    /\ fn = "none"
    /\ arg \in PipelineInput
    /\ ret = JUndef
    /\ locals = NoLocals
    /\ apiKey = FALSE
    /\ pc = Idle
    /\ notes = NoValue
    /\ completion = [r \in 1..NumReq |-> [kind |-> "none", content |-> JUndef]]
    /\ parseCalls = Zero
    /\ fetchCalls = Zero
    /\ response = NoResponse

Call_parseAIResponse ==
    /\ fn = "none"
    /\ arg.f = "parseAIResponse"
    /\ fn' = "parseAIResponse"
    /\ locals' = parseLocals(arg.v)
    /\ ret' = finish(locals')
    /\ UNCHANGED <<arg, handlerVars>>

Call_parseClaudeResponse ==
    /\ fn = "none"
    /\ arg.f = "parseClaudeResponse"
    /\ fn' = "parseClaudeResponse"
    /\ ret' = parseClaudeResponse(arg.v.s)
    /\ UNCHANGED <<arg, locals, handlerVars>>

Call_normalizeItemForFrontend ==
    /\ fn = "none"
    /\ arg.f = "normalizeItemForFrontend"
    /\ fn' = "normalizeItemForFrontend"
    /\ ret' = normalizeItemForFrontend(arg.v)
    /\ UNCHANGED <<arg, locals, handlerVars>>

Call_itemsToOutline ==
    /\ fn = "none"
    /\ arg.f = "itemsToOutline"
    /\ fn' = "itemsToOutline"
    /\ ret' = itemsToOutline(arg.v)
    /\ UNCHANGED <<arg, locals, handlerVars>>

NextPipeline ==
    \/ Call_parseAIResponse
    \/ Call_parseClaudeResponse
    \/ Call_normalizeItemForFrontend
    \/ Call_itemsToOutline

SpecPipeline == InitPipeline /\ [][NextPipeline]_vars

----------------------------------------------------------------------------
(* The upstream model call.  An outcome of the fetch is [kind, content]:   *)
(* "reject" when fetch rejects, "status" when res.ok is false, "body" when *)
(* the reply decodes, with content the completion field (undefined when    *)
(* the reply has none).                                                    *)

Threw(msg) == [threw |-> TRUE, text |-> <<>>, message |-> msg]
Returned(text) == [threw |-> FALSE, text |-> text, message |-> <<>>]

refineReturnsEmpty(outcome) ==
    IF outcome.kind = "reject" THEN Threw(<<"fetch failed">>)
    ELSE IF outcome.kind = "status" THEN Threw(<<"DeepSeek request failed">>)
    ELSE IF Truthy(outcome.content) /\ outcome.content.t # "string"
         THEN Threw(<<"trim is not a function">>)
    ELSE Returned(trim(IF Truthy(outcome.content) THEN outcome.content.s ELSE <<>>))

refineWithDeepSeek(outcome) ==
    IF outcome.kind = "reject" THEN Threw(<<"fetch failed">>)
    ELSE IF outcome.kind = "status" THEN Threw(<<"DeepSeek request failed">>)
    ELSE IF Truthy(outcome.content) /\ outcome.content.t # "string"
         THEN Threw(<<"trim is not a function">>)
    ELSE LET text == trim(IF Truthy(outcome.content) THEN outcome.content.s ELSE <<>>)
         IN  IF text = <<>> THEN Threw(<<"DeepSeek returned nothing">>) ELSE Returned(text)

refineWithOllama(outcome) ==
    IF outcome.kind = "reject" THEN Threw(<<"fetch failed">>)
    ELSE IF outcome.kind = "status" THEN Threw(<<"Ollama request failed">>)
    ELSE IF Truthy(outcome.content) /\ outcome.content.t # "string"
         THEN Threw(<<"trim is not a function">>)
    ELSE LET text == trim(IF Truthy(outcome.content) THEN outcome.content.s ELSE <<>>)
         IN  IF text = <<>> THEN Threw(<<"Ollama returned nothing">>) ELSE Returned(text)

----------------------------------------------------------------------------
(* app.post('/api/claude') *)

Reqs == 1..NumReq

NotesInput == {JUndef, JStr(<<>>), JNum(5), JStr(<<"n">>)}

Completion ==
    { JUndef,
      JStr(<<" ", "\n">>),
      JNum(5),
      JStr(Encode(JObj(<<Prop(kOutline, JStr(<<"-", " ", "x">>)),
                        Prop(kItems, JArr(<<JObj(<<Prop(kCoreNative, JStr(<<"A">>)),
                                                   Prop(kLogicNative, JStr(<<" ", "B">>))>>),
                                            JStr(<<" ", "s", " ">>),
                                            JObj(<<Prop(kText, JStr(<<"t">>))>>)>>)),
                        Prop(kOpening, JStr(<<"O">>)),
                        Prop(kVisualCode, JStr(<<"g">>))>>))),
      JStr(Fenced(Encode(JObj(<<Prop(kSummary, JStr(<<"S">>)),
                               Prop(kOutline, JStr(<<"-", " ", "x">>))>>)))),
      JStr(Encode(JObj(<<Prop(kItems, JArr(<<>>)), Prop(kSummary, JStr(<<"S">>))>>))),
      JStr(<<"{", "}">>),
      JStr(outlineMarker \o <<"-", " ", "x">> \o openMarker \o <<"O">>) }

FetchOutcome ==
    {[kind |-> "reject", content |-> JUndef], [kind |-> "status", content |-> JUndef]}
    \cup {[kind |-> "body", content |-> c] : c \in Completion}

\* !notes || typeof notes !== 'string'
invalidNotes(n) == ~Truthy(n) \/ n.t # "string"

\* res.status(400).json({ error })
badRequest ==
    [status |-> 400, body |-> JObj(<<Prop(kError, JStr(<<"notes required">>))>>)]

\* res.status(500).json({ error, outline: '', opening: '', items: undefined, visualCode: '' })
serverError(msg) ==
    [status |-> 500,
     body |-> JObj(<<Prop(kError, JStr(msg)), Prop(kOutline, JStr(<<>>)),
                     Prop(kOpening, JStr(<<>>)), Prop(kItems, JUndef),
                     Prop(kVisualCode, JStr(<<>>))>>)]

\* items.map(normalizeItemForFrontend) when items is a non-empty array
normalizedItems(items) ==
    IF items.t = "array" /\ Len(items.a) > 0
    THEN JArr([i \in 1..Len(items.a) |-> normalizeItemForFrontend(items.a[i])])
    ELSE JUndef

outlineStrFromParser(parsed, normalized) == parsed.outline

outlineStr(parsed, normalized) ==
    IF Truthy(normalized)
    THEN itemsToOutline(JArr([i \in 1..Len(normalized.a) |-> Get(normalized.a[i], kText)]))
    ELSE parsed.outline

jsonResponse(parsed, normalized) ==
    [status |-> 200,
     body |-> JObj(<<Prop(kOutline, JStr(outlineStr(parsed, normalized))),
                     Prop(kOpening, JStr(parsed.opening)),
                     Prop(kItems, normalized),
                     Prop(kVisualCode, IF Truthy(parsed.visualCode)
                                       THEN parsed.visualCode ELSE JStr(<<>>))>>)]

respondWith(parsed) == jsonResponse(parsed, normalizedItems(parsed.items))

\* res.json(jsonResponse)
success(text) == respondWith(parseAIResponse(JStr(text)))

\* What res.json puts on the wire: JSON.stringify leaves out the properties
\* whose value is undefined
wire(body) == JObj(Defined(body.a))

refine(outcome) == IF apiKey THEN refineWithDeepSeek(outcome) ELSE refineWithOllama(outcome)

Init ==
    /\ fn = "none"
    /\ arg = [f |-> "none", v |-> JUndef]
    /\ ret = JUndef
    /\ locals = NoLocals
    /\ apiKey \in BOOLEAN
    /\ pc = Idle
    /\ notes = NoValue
    /\ completion = [r \in Reqs |-> [kind |-> "none", content |-> JUndef]]
    /\ parseCalls = Zero
    /\ fetchCalls = Zero
    /\ response = NoResponse

\* The request's notes are missing, empty or no string: 400, no upstream call
Reject(r) ==
    /\ pc[r] = "idle"
    /\ \E n \in NotesInput :
        /\ invalidNotes(n)
        /\ notes' = [notes EXCEPT ![r] = n]
    /\ response' = [response EXCEPT ![r] = badRequest]
    /\ pc' = [pc EXCEPT ![r] = "done"]
    /\ UNCHANGED <<pipelineVars, apiKey, completion, parseCalls, fetchCalls>>

\* The handler issues the upstream call and is suspended at its await
Accept(r) ==
    /\ pc[r] = "idle"
    /\ \E n \in NotesInput :
        /\ ~invalidNotes(n)
        /\ notes' = [notes EXCEPT ![r] = n]
    /\ fetchCalls' = [fetchCalls EXCEPT ![r] = @ + 1]
    /\ pc' = [pc EXCEPT ![r] = "awaiting"]
    /\ UNCHANGED <<pipelineVars, apiKey, completion, parseCalls, response>>

\* The upstream call settles
Settle(r) ==
    /\ pc[r] = "awaiting"
    /\ \E o \in FetchOutcome : completion' = [completion EXCEPT ![r] = o]
    /\ pc' = [pc EXCEPT ![r] = "settled"]
    /\ UNCHANGED <<pipelineVars, apiKey, notes, parseCalls, fetchCalls, response>>

\* The handler resumes in its try block: parse and answer
Respond(r) ==
    /\ pc[r] = "settled"
    /\ ~refine(completion[r]).threw
    /\ parseCalls' = [parseCalls EXCEPT ![r] = @ + 1]
    /\ response' = [response EXCEPT ![r] = success(refine(completion[r]).text)]
    /\ pc' = [pc EXCEPT ![r] = "done"]
    /\ UNCHANGED <<pipelineVars, apiKey, notes, completion, fetchCalls>>

\* The handler resumes in its catch block
Catch(r) ==
    /\ pc[r] = "settled"
    /\ refine(completion[r]).threw
    /\ response' = [response EXCEPT ![r] = serverError(refine(completion[r]).message)]
    /\ pc' = [pc EXCEPT ![r] = "done"]
    /\ UNCHANGED <<pipelineVars, apiKey, notes, completion, parseCalls, fetchCalls>>

Next ==
    \E r \in Reqs :
        \/ Reject(r)
        \/ Accept(r)
        \/ Settle(r)
        \/ Respond(r)
        \/ Catch(r)

Spec == Init /\ [][Next]_vars

----------------------------------------------------------------------------
(* Properties of the pipeline, checked under SpecPipeline *)

NonEmptyArray(v) == v.t = "array" /\ Len(v.a) > 0
NonEmptyString(v) == v.t = "string" /\ v.s # <<>>
Called(f) == fn = f
Contains(s, m) == \E i \in 1..(Len(s) - Len(m) + 1) : SubSeq(s, i, i + Len(m) - 1) = m

\* The trimmed text parseAIResponse was handed
RawArg == trim(IF arg.v.t = "string" THEN arg.v.s ELSE <<>>)

\* C1: whenever the reply decodes to a JSON object whose items field is a
\* non-empty array, the returned outline is itemsToOutline of that raw items
\* array, whatever the object's own outline field holds.
C1_OutlineFromRawItems ==
    (Called("parseAIResponse") /\ locals.parsed /\ locals.obj.t = "object"
        /\ NonEmptyArray(Get(locals.obj, kItems)))
    => ret.outline = itemsToOutline(Get(locals.obj, kItems))

\* A fenced reply with items and a different outline string of its own, one
\* item being a record that only the normalizer would read
C1_Witness ==
    /\ Called("parseAIResponse")
    /\ locals.parsed
    /\ locals.jsonStr # locals.raw
    /\ NonEmptyArray(Get(locals.obj, kItems))
    /\ NonEmptyString(Get(locals.obj, kOutline))
    /\ Get(locals.obj, kOutline).s # ret.outline
    /\ \E i \in 1..Len(Get(locals.obj, kItems).a) :
          Get(Get(locals.obj, kItems).a[i], kCoreNative).t = "string"
    /\ ret.outline = itemsToOutline(Get(locals.obj, kItems))

\* The try block read nothing usable from the decoded value
NothingRead(obj) ==
    /\ jsonResult(obj).outline = <<>>
    /\ jsonResult(obj).opening = <<>>
    /\ ~NonEmptyArray(jsonResult(obj).items)

\* C2: when the fence-stripped text does not decode, or decodes to a value
\* that yields an empty outline, an empty opening and no non-empty items, the
\* result is parseClaudeResponse of the original trimmed text (fences
\* included), with no items and visualCode null.
C2_FallbackOnRawText ==
    (Called("parseAIResponse") /\ (~locals.parsed \/ NothingRead(locals.obj)))
    => ret = [outline |-> parseClaudeResponse(RawArg).outline,
              opening |-> parseClaudeResponse(RawArg).opening,
              items |-> JNull, visualCode |-> JNull]

\* A fenced reply that decodes to an empty result: the fences are part of
\* what the splitter returns
C2_Witness ==
    /\ Called("parseAIResponse")
    /\ locals.parsed
    /\ NothingRead(locals.obj)
    /\ stripFence(RawArg) # RawArg
    /\ ret.opening = RawArg
    /\ ret.opening # parseClaudeResponse(stripFence(RawArg)).opening
    /\ ret.items = JNull

\* The try block returned: the decoded object gave an outline, an opening
\* or items
JsonPathTaken ==
    /\ locals.parsed
    /\ locals.obj.t = "object"
    /\ \/ NonEmptyArray(Get(locals.obj, kItems))
       \/ NonEmptyString(Get(locals.obj, kOutline))
       \/ NonEmptyString(Get(locals.obj, kSummary))
       \/ (Get(locals.obj, kSummary).t # "string" /\ NonEmptyString(Get(locals.obj, kOpening)))

\* C3 as stated: with a string opening and a string summary both present
\* in the decoded object, the result's opening is the opening field's value
\* (read where the try block returns, its most favourable case).
C3_OpeningFieldWins ==
    (Called("parseAIResponse") /\ JsonPathTaken
        /\ Get(locals.obj, kOpening).t = "string"
        /\ Get(locals.obj, kSummary).t = "string")
    => ret.opening = Get(locals.obj, kOpening).s

\* C3, amended: when the JSON result is used, a string summary is the
\* result's opening whether or not an opening field is present, and the
\* opening field is used only when summary is no string.
C3_SummaryFieldWins ==
    (Called("parseAIResponse") /\ JsonPathTaken)
    => /\ Get(locals.obj, kSummary).t = "string"
            => ret.opening = Get(locals.obj, kSummary).s
       /\ (Get(locals.obj, kSummary).t # "string" /\ Get(locals.obj, kOpening).t = "string")
            => ret.opening = Get(locals.obj, kOpening).s

\* Both fields present, non-empty and different: summary is returned
C3_Witness ==
    /\ Called("parseAIResponse")
    /\ JsonPathTaken
    /\ NonEmptyString(Get(locals.obj, kOpening))
    /\ NonEmptyString(Get(locals.obj, kSummary))
    /\ Get(locals.obj, kOpening) # Get(locals.obj, kSummary)
    /\ ret.opening = Get(locals.obj, kSummary).s

\* C4: for marker-free O and L, the opening marker + O + the outline marker
\* + L and the outline marker + L + the opening marker + O both split into
\* opening = trim(O) and outline = trim(L): each section ends where the
\* later marker starts, or at the end of the text.
C4_MarkerOrderSymmetric ==
    Called("parseClaudeResponse")
    => \A O \in Fragment, L \in Fragment :
          (\/ arg.v.s = openMarker \o O \o outlineMarker \o L
           \/ arg.v.s = outlineMarker \o L \o openMarker \o O)
          => ret = [outline |-> trim(L), opening |-> trim(O)]

\* The outline section first, both sections non-empty and in need of trimming
C4_Witness ==
    /\ Called("parseClaudeResponse")
    /\ \E O \in Fragment, L \in Fragment :
          /\ trim(O) # <<>> /\ trim(O) # O
          /\ trim(L) # <<>> /\ trim(L) # L
          /\ trim(L) # trim(O)
          /\ arg.v.s = outlineMarker \o L \o openMarker \o O
          /\ ret = [outline |-> trim(L), opening |-> trim(O)]

\* Throwaway narration, then a bullet list that ends with a newline
Narrated(list) == <<"n", "\n">> \o list
BulletList ==
    { <<"-", " ", "b", "\n">>,
      <<"-", " ", "b", "\n", "-", " ", "c", "\n">> }

\* C5: with only the opening marker, and narration followed by a bullet line
\* before it, the outline starts at the bullet line, bullet marker included,
\* the narration is dropped, and opening is the text after the marker.
C5_BulletLineKept ==
    Called("parseClaudeResponse")
    => \A list \in BulletList, O \in Fragment :
          arg.v.s = Narrated(list) \o openMarker \o O
          => ret = [outline |-> trim(list), opening |-> trim(O)]

\* C6: a trimmed text with neither marker is returned whole as the opening,
\* and its first floor(length / 2) characters, trimmed, as the outline.
C6_NoMarkerHalves ==
    (Called("parseClaudeResponse") /\ trim(arg.v.s) = arg.v.s
        /\ ~Contains(arg.v.s, openMarker) /\ ~Contains(arg.v.s, outlineMarker))
    => /\ ret.opening = arg.v.s
       /\ \E h \in 0..Len(arg.v.s) :
             /\ 2 * h <= Len(arg.v.s)
             /\ Len(arg.v.s) < 2 * h + 2
             /\ ret.outline = trim(SubSeq(arg.v.s, 1, h))

\* Nine characters: the outline is the first four
C6_Witness ==
    /\ Called("parseClaudeResponse")
    /\ arg.v.s = <<"0", "1", "2", "3", "4", "5", "6", "7", "8">>
    /\ ret = [outline |-> <<"0", "1", "2", "3">>, opening |-> arg.v.s]

\* The value of a domain field: the native-language key, else the alias
Field(item, native, alias) == Coalesce(Get(item, native), Coalesce(Get(item, alias), JStr(<<>>)))

\* A field contributes when it is there and something is left of it once trimmed
Contributes(v) == Truthy(v) /\ trim(String(v)) # <<>>

Contribution(item) ==
    SelectSeq(<<Field(item, kCoreNative, kCore), Field(item, kLogicNative, kLogic),
                Field(item, kInsightNative, kInsight)>>, Contributes)

\* C7: an object item without a string text field is normalized to the
\* trimmed core, logic and insight values that are non-empty, in that order,
\* joined by single newlines; a missing, empty or white-space-only field
\* leaves no empty line and no leading or trailing newline.
C7_NoEmptyLinePlaceholder ==
    (Called("normalizeItemForFrontend") /\ arg.v.t = "object"
        /\ Get(arg.v, kText).t # "string")
    => ret = JObj(<<Prop(kText,
                JStr(join([i \in 1..Len(Contribution(arg.v)) |->
                             trim(String(Contribution(arg.v)[i]))], <<"\n">>)))>>)

----------------------------------------------------------------------------
(* Properties of the handler, checked under Spec *)

Has(obj, key) == \E i \in 1..Len(obj.a) : obj.a[i].k = key

\* A canonical item: an object whose one property is a string text
IsTextRecord(v) ==
    v.t = "object" /\ Len(v.a) = 1 /\ v.a[1].k = kText /\ v.a[1].v.t = "string"

\* What parseAIResponse returned for the request's completion
ParsedFor(r) == parseAIResponse(JStr(refine(completion[r]).text))

Succeeded(r) == pc[r] = "done" /\ response[r].status = 200

\* C8: in a success response, when the parsed reply carried a non-empty
\* items array, items has the same length and order, each element the
\* normalized raw item, a {text} record, and outline is itemsToOutline of
\* those response items; otherwise items is absent and outline is the string
\* the extraction path produced.
C8_SuccessResponse ==
    \A r \in Reqs :
        Succeeded(r) =>
            IF NonEmptyArray(ParsedFor(r).items)
            THEN /\ Get(wire(response[r].body), kItems).t = "array"
                 /\ Len(Get(wire(response[r].body), kItems).a) = Len(ParsedFor(r).items.a)
                 /\ \A i \in 1..Len(ParsedFor(r).items.a) :
                       /\ Get(wire(response[r].body), kItems).a[i]
                            = normalizeItemForFrontend(ParsedFor(r).items.a[i])
                       /\ IsTextRecord(Get(wire(response[r].body), kItems).a[i])
                 /\ Get(wire(response[r].body), kOutline)
                      = JStr(itemsToOutline(Get(wire(response[r].body), kItems)))
            ELSE /\ ~Has(wire(response[r].body), kItems)
                 /\ Get(wire(response[r].body), kOutline) = JStr(ParsedFor(r).outline)

\* A success response with three items whose outline differs from the one
\* the parser rendered from the raw items, beside one without items
C8_Witness ==
    \E r \in Reqs, q \in Reqs :
        /\ Succeeded(r)
        /\ Len(ParsedFor(r).items.a) = 3
        /\ Get(wire(response[r].body), kOutline) # JStr(ParsedFor(r).outline)
        /\ Succeeded(q)
        /\ ~Has(wire(response[q].body), kItems)
        /\ NonEmptyString(Get(wire(response[q].body), kOutline))

Failed(r) == pc[r] = "done" /\ response[r].status \in {400, 500}

\* C9: every failure response, for invalid notes and for a failed upstream
\* call alike, carries a failure message and the fields outline, opening,
\* items and visualCode with empty values.
C9_FailureResponseShape ==
    \A r \in Reqs :
        Failed(r) =>
            /\ NonEmptyString(Get(response[r].body, kError))
            /\ Has(response[r].body, kOutline)
            /\ Get(response[r].body, kOutline) = JStr(<<>>)
            /\ Has(response[r].body, kOpening)
            /\ Get(response[r].body, kOpening) = JStr(<<>>)
            /\ Has(response[r].body, kItems)
            /\ Get(response[r].body, kItems) \in {JUndef, JNull, JArr(<<>>)}
            /\ Has(response[r].body, kVisualCode)
            /\ Get(response[r].body, kVisualCode) \in {JStr(<<>>), JNull}

\* The upstream call completed with a success status and a non-empty text
UpstreamSucceeded(r) ==
    /\ completion[r].kind = "body"
    /\ completion[r].content.t = "string"
    /\ trim(completion[r].content.s) # <<>>

\* The response a request's own notes and upstream outcome determine
OwnResponse(r) ==
    IF invalidNotes(notes[r]) THEN badRequest
    ELSE IF UpstreamSucceeded(r) THEN success(trim(completion[r].content.s))
    ELSE serverError(refine(completion[r]).message)

\* C10: per request, parseAIResponse runs at most once, and only after the
\* request's single upstream call completed with a success status and a
\* non-empty text; when the call throws, has a non-success status or an
\* empty completion, the request ends in an error response without
\* parseAIResponse having run; a request's response is decided by its own
\* notes and upstream outcome, whatever the other requests do.
C10_ParseOnceAfterUpstream ==
    \A r \in Reqs :
        /\ parseCalls[r] <= 1
        /\ fetchCalls[r] <= 1
        /\ parseCalls[r] = 1 => (fetchCalls[r] = 1 /\ UpstreamSucceeded(r) /\ Succeeded(r))
        /\ (pc[r] = "done" /\ fetchCalls[r] = 1 /\ ~UpstreamSucceeded(r))
              => (parseCalls[r] = 0 /\ response[r].status = 500)
        /\ (pc[r] = "done" /\ fetchCalls[r] = 0)
              => (parseCalls[r] = 0 /\ response[r].status = 400)
        /\ pc[r] = "done" => response[r] = OwnResponse(r)
        /\ pc[r] # "done" => (parseCalls[r] = 0 /\ response[r].status = 0)

\* Two requests in flight together: one parsed once and answered, the other
\* ended in an error on an empty completion without a parse
C10_Witness ==
    \E r \in Reqs, q \in Reqs :
        /\ Succeeded(r) /\ parseCalls[r] = 1 /\ fetchCalls[r] = 1
        /\ pc[q] = "done" /\ fetchCalls[q] = 1 /\ parseCalls[q] = 0
        /\ completion[q].kind = "body"
        /\ response[q].status = 500

====
